---- MODULE Spec2Model ----
(***************************************************************************)
(* Franchise Test Dashboard (src/app.py): one Streamlit script that is     *)
(* re-run from the top on every widget event.  A state of the model is the *)
(* state left behind by one complete run of the script: the widget values  *)
(* it read, st.session_state.messages, the alert of the load stage and the *)
(* derived tables it computed.                                             *)
(*                                                                         *)
(* Text is a sequence of one-character strings, so that .lower(), .strip() *)
(* and str() are modelled by what they do.  Percentages are integers in    *)
(* hundredths of a percent (3312 is 33.12).                                *)
(***************************************************************************)
EXTENDS Integers, Sequences, FiniteSets, TLC

VARIABLES
    uploaded_file,                  \* st.sidebar.file_uploader value
    openai_api_key,                 \* TRUE iff OPENAI_API_KEY is in st.secrets
    top_n_tests,                    \* st.slider value
    selection,                      \* Filter Selection of the specification (no widget reads it)
    submit_button,                  \* st.form_submit_button value in the last run
    user_question,                  \* st.text_area value in the last run
    messages,                       \* st.session_state.messages
    api_calls,                      \* openai.ChatCompletion.create calls made by the last run
    api_outcome,                    \* how the call of the last run ended ("none": no call)
    load_alert,                     \* st.error / st.warning of the load stage
    df,                             \* df after load
    filtered_df,                    \* filtered_df
    aggregated,                     \* TRUE iff the last run reached the dashboard section
    volume_by_franchisee,           \* volume_by_franchisee as charted by fig1
    test_counts,                    \* test_counts as charted by fig2
    lab_counts,                     \* lab_counts as charted by fig3
    sub_account_counts,             \* sub_account_counts as charted by fig4
    top_tests_per_franchisee_chart, \* top_tests_per_franchisee_chart as charted by fig5
    page                            \* elements the last run rendered, in order

vars == <<uploaded_file, openai_api_key, top_n_tests, selection, submit_button,
          user_question, messages, api_calls, api_outcome, load_alert, df, filtered_df,
          aggregated, volume_by_franchisee, test_counts, lab_counts,
          sub_account_counts, top_tests_per_franchisee_chart, page>>

---------------------------------------------------------------------------
(* Bounds of the model *)

MaxSubmissions == 2     \* chat submissions per session
MaxSchemaRows == 1      \* rows of the tables that vary the column header
MaxDropRows == 2        \* rows of the tables that vary missing / blank cells
MaxStatusRows == 3      \* rows of the tables that vary franchisee / sub client names
MaxFilterRows == 2      \* rows of the tables used with a filter selection
MaxRankRows == 6        \* rows of the tables whose test names are all different
MaxRepeatRows == 3      \* rows of the tables whose test names may repeat
MaxPctRows == 32        \* rows of the one-franchisee tables that vary the differing share

(* Program constants *)

SliderMin == 5          \* st.slider(..., 5, 50, 15)
SliderDefault == 15
TopPerFranchisee == 5   \* rank(...) <= 5

---------------------------------------------------------------------------
(* Text *)

Whitespace == {" "}

LowerChar(c) ==
    CASE c = "A" -> "a" [] c = "B" -> "b" [] c = "C" -> "c" [] c = "D" -> "d"
      [] c = "E" -> "e" [] c = "F" -> "f" [] c = "L" -> "l" [] c = "N" -> "n"
      [] c = "X" -> "x" [] c = "Y" -> "y" [] OTHER -> c

CodePoint(c) ==
    CASE c = " " -> 32 [] c = "A" -> 65 [] c = "B" -> 66 [] c = "C" -> 67
      [] c = "D" -> 68 [] c = "E" -> 69 [] c = "F" -> 70 [] c = "L" -> 76
      [] c = "N" -> 78 [] c = "X" -> 88 [] c = "Y" -> 89 [] c = "a" -> 97
      [] c = "b" -> 98 [] c = "c" -> 99 [] c = "d" -> 100 [] c = "e" -> 101
      [] c = "f" -> 102 [] c = "l" -> 108 [] c = "n" -> 110 [] c = "x" -> 120
      [] c = "y" -> 121 [] OTHER -> 0

\* str.lower()
Lower(s) == [i \in 1..Len(s) |-> LowerChar(s[i])]

RECURSIVE LStrip(_)
LStrip(s) == IF s # <<>> /\ Head(s) \in Whitespace THEN LStrip(Tail(s)) ELSE s

RECURSIVE RStrip(_)
RStrip(s) ==
    IF s # <<>> /\ s[Len(s)] \in Whitespace THEN RStrip(SubSeq(s, 1, Len(s) - 1)) ELSE s

\* str.strip()
Strip(s) == RStrip(LStrip(s))

\* Python's str ordering: lexicographic by code point
RECURSIVE StrLess(_, _)
StrLess(s, t) ==
    IF s = <<>> THEN t # <<>>
    ELSE IF t = <<>> THEN FALSE
    ELSE IF CodePoint(Head(s)) # CodePoint(Head(t))
         THEN CodePoint(Head(s)) < CodePoint(Head(t))
         ELSE StrLess(Tail(s), Tail(t))

Range(s) == {s[i] : i \in DOMAIN s}

Min(a, b) == IF a < b THEN a ELSE b

\* The elements of s at the indices I, in the order of s
SubseqAt(s, I) ==
    [p \in 1..Cardinality(I) |->
        s[CHOOSE i \in I : Cardinality({j \in I : j < i}) = p - 1]]

---------------------------------------------------------------------------
(* Cells and load *)

None == <<"<None>">>    \* an empty spreadsheet cell
NaN == <<"<NaN>">>      \* a missing value of the DataFrame

\* pandas' default na_values, restricted to the model's alphabet
NAStrings == {<<>>, <<"n", "a", "n">>, <<"N", "a", "N">>, <<"N", "A">>}

\* pd.read_excel: empty cells and NA strings are read as NaN
ReadCell(c) == IF c = None \/ c \in NAStrings THEN NaN ELSE c

\* Series.astype(str)
AsStr(c) == IF c = NaN THEN <<"n", "a", "n">> ELSE c

required_columns == <<"Franchisee", "Sub Client", "test name", "Lab Partner">>

HasRequiredColumnsAny(columns) ==
    \E i \in DOMAIN required_columns : required_columns[i] \in Range(columns)

\* all(col in df.columns for col in required_columns)
HasRequiredColumns(columns) ==
    \A i \in DOMAIN required_columns : required_columns[i] \in Range(columns)

\* df[required_columns] of the frame read from the file
SelectRequired(file) ==
    [i \in 1..Len(file.rows) |->
        [c \in Range(required_columns) |-> ReadCell(file.rows[i][c])]]

\* DataFrame.dropna(subset=['Franchisee', 'test name'])
DropNa(rows) ==
    LET Keep(r) == r["Franchisee"] # NaN /\ r["test name"] # NaN
    IN  SelectSeq(rows, Keep)

NoAlert == [kind |-> "none", names |-> <<>>]

\* The try block of the load stage: its alert and the DataFrame it leaves
Load(file) ==
    IF file.kind = "unreadable"
    THEN [alert |-> [kind |-> "read", names |-> <<>>], df |-> <<>>]
    ELSE IF ~HasRequiredColumns(file.columns)
    THEN [alert |-> [kind |-> "schema", names |-> required_columns], df |-> <<>>]
    ELSE IF ~(Range(required_columns) \subseteq Range(file.columns))
    THEN \* df[required_columns] raises KeyError, caught by except Exception
         [alert |-> [kind |-> "read", names |-> <<>>], df |-> <<>>]
    ELSE LET kept == DropNa(SelectRequired(file))
         IN  IF kept = <<>>
             THEN [alert |-> [kind |-> "empty", names |-> <<>>], df |-> <<>>]
             ELSE [alert |-> NoAlert, df |-> kept]

StopsAfterLoadNoEmptyStop(alert) == alert.kind \in {"schema", "read"}

\* st.stop() after each alert of the load stage.  It ends the run by raising a
\* script-control exception that is not an Exception, so the except clause of
\* the load stage does not catch it.
StopsAfterLoad(alert) == alert.kind # "none"

FilteredDfBySelection(d, sel) ==
    LET Chosen(r) == r["test name"] \in sel.tests /\ r["Franchisee"] \in sel.franchisees
    IN  SelectSeq(d, Chosen)

\* filtered_df = df.copy()
FilteredDf(d, sel) == d

---------------------------------------------------------------------------
(* Aggregation *)

SubAccountUsed == <<"Sub Account Used">>
DirectAccount == <<"Direct Account">>

Column(rows, c) == [i \in 1..Len(rows) |-> rows[i][c]]

\* Series.astype(str).str.lower().str.strip()
Norm(c) == Strip(Lower(AsStr(c)))

\* temp['Sub_Account_Status'] of one row
SubAccountStatus(r) ==
    IF Norm(r["Franchisee"]) # Norm(r["Sub Client"]) THEN SubAccountUsed ELSE DirectAccount

\* Series.value_counts(): NaN keys dropped, count descending, equal counts in
\* the order of first appearance (the sort is stable for the short arrays here)
ValueCounts(keys) ==
    LET vals == Range(keys) \ {NaN}
        cnt(k) == Cardinality({i \in DOMAIN keys : keys[i] = k})
        first(k) == CHOOSE i \in DOMAIN keys :
                        keys[i] = k /\ \A j \in 1..(i - 1) : keys[j] # k
        before(m, k) == cnt(m) > cnt(k) \/ (cnt(m) = cnt(k) /\ first(m) < first(k))
    IN  [p \in 1..Cardinality(vals) |->
            LET k == CHOOSE k \in vals : Cardinality({m \in vals : before(m, k)}) = p - 1
            IN  [key |-> k, count |-> cnt(k)]]

\* sort_values(..., ascending=True), stable
\* of the rows s by the column key (key[i] belongs to s[i])
SortAscending(s, key) ==
    LET pos(i) == Cardinality({j \in DOMAIN s : key[j] < key[i]})
                  + Cardinality({j \in 1..(i - 1) : key[j] = key[i]}) + 1
    IN  [p \in 1..Len(s) |-> s[CHOOSE i \in DOMAIN s : pos(i) = p]]

\* The counts of a value_counts() result
CountColumn(t) == [i \in 1..Len(t) |-> t[i].count]

\* Series.head(n)
HeadN(s, n) == SubSeq(s, 1, Min(n, Len(s)))

\* (share * 100).round(2) of the share d / t, in hundredths of a percent.
\* numpy rounds half to even.  A tie needs t to be a multiple of 32; for
\* t = 32 the share, its product with 100 and the scaled value are exact
\* binary fractions, so the float computation is the one written here.
Round2(d, t) ==
    LET q == (10000 * d) \div t
        r == (10000 * d) % t
    IN  IF 2 * r < t THEN q
        ELSE IF 2 * r > t THEN q + 1
        ELSE IF q % 2 = 0 THEN q ELSE q + 1

\* sub_account_summary['% Sub Account Used'], by franchisee
SubAccountSummary(temp) ==
    LET status == [i \in 1..Len(temp) |-> SubAccountStatus(temp[i])]
        rowsOf(f) == {i \in DOMAIN temp : temp[i]["Franchisee"] = f}
        usedOf(f) == {i \in rowsOf(f) : status[i] = SubAccountUsed}
    IN  [f \in Range(Column(temp, "Franchisee")) |->
            IF SubAccountUsed \in Range(status)
            THEN Round2(Cardinality(usedOf(f)), Cardinality(rowsOf(f)))
            ELSE 0]

\* filtered_df.groupby(['Franchisee', 'test name']).size().reset_index(...):
\* one row per pair, sorted by franchisee, then test name
FranchiseeTestVolume(fdf) ==
    LET pairs == {<<fdf[i]["Franchisee"], fdf[i]["test name"]>> : i \in DOMAIN fdf}
        less(a, b) == StrLess(a[1], b[1]) \/ (a[1] = b[1] /\ StrLess(a[2], b[2]))
        size(k) == Cardinality({i \in DOMAIN fdf :
                        fdf[i]["Franchisee"] = k[1] /\ fdf[i]["test name"] = k[2]})
    IN  [p \in 1..Cardinality(pairs) |->
            LET k == CHOOSE k \in pairs : Cardinality({m \in pairs : less(m, k)}) = p - 1
            IN  [Franchisee |-> k[1], test_name |-> k[2], Test_Volume |-> size(k)]]

\* franchisee_test_volume.loc[groupby('Franchisee')['Test Volume'].idxmax()]:
\* the first row of the franchisee with its largest volume
TopTestPerFranchisee(ftv, f) ==
    LET grp == {i \in DOMAIN ftv : ftv[i].Franchisee = f}
        best == CHOOSE i \in grp :
                    /\ \A j \in grp : ftv[j].Test_Volume <= ftv[i].Test_Volume
                    /\ \A j \in grp : j < i => ftv[j].Test_Volume < ftv[i].Test_Volume
    IN  ftv[best]

\* volume_by_franchisee after the two joins, fillna and the ascending sort
VolumeByFranchisee(fdf) ==
    LET vc == ValueCounts(Column(fdf, "Franchisee"))
        ftv == FranchiseeTestVolume(fdf)
        summary == SubAccountSummary(fdf)
        joined == [i \in 1..Len(vc) |->
                     LET top == TopTestPerFranchisee(ftv, vc[i].key)
                     IN  [Franchisee |-> vc[i].key,
                          Sample_Volume |-> vc[i].count,
                          Top_Test_Name |-> top.test_name,
                          Top_Test_Volume |-> top.Test_Volume,
                          Pct_Sub_Account_Used |->
                              IF vc[i].key \in DOMAIN summary
                              THEN summary[vc[i].key] ELSE 0]]
    IN  SortAscending(joined, [i \in 1..Len(joined) |-> joined[i].Sample_Volume])

\* filtered_df['test name'].value_counts().head(top_n_tests).sort_values(ascending=True)
TestCounts(fdf, n) ==
    LET top == HeadN(ValueCounts(Column(fdf, "test name")), n)
    IN  SortAscending(top, CountColumn(top))

\* filtered_df['Lab Partner'].value_counts().sort_values(ascending=True)
LabCounts(fdf) ==
    LET vc == ValueCounts(Column(fdf, "Lab Partner"))
    IN  SortAscending(vc, CountColumn(vc))

\* temp['Sub_Account_Status'].value_counts()
SubAccountCounts(fdf) ==
    ValueCounts([i \in 1..Len(fdf) |-> SubAccountStatus(fdf[i])])

\* rows of franchisee_test_volume whose rank(method='first', ascending=False)
\* within the franchisee is at most 5; equal volumes rank in row order
TopTestsPerFranchiseeChart(fdf) ==
    LET ftv == FranchiseeTestVolume(fdf)
        rank(i) == Cardinality({j \in DOMAIN ftv :
                        /\ ftv[j].Franchisee = ftv[i].Franchisee
                        /\ \/ ftv[j].Test_Volume > ftv[i].Test_Volume
                           \/ (ftv[j].Test_Volume = ftv[i].Test_Volume /\ j < i)}) + 1
    IN  SubseqAt(ftv, {i \in DOMAIN ftv : rank(i) <= TopPerFranchisee})

---------------------------------------------------------------------------
(* Chat *)

AuthText == <<"OpenAI API Key is invalid. Please check your key in Streamlit secrets.">>
ApiErrorPrefix == <<"OpenAI API Error: ">>
UnexpectedPrefix == <<"An unexpected error occurred with the chatbot: ">>
NoDataText == <<"No data available to query the chatbot. Please upload a file first.">>

\* The assistant message of one submission: the try / except of the form handler
AssistantContent(fdf, outcome) ==
    IF fdf = <<>> THEN NoDataText
    ELSE CASE outcome.kind = "ok" -> Strip(outcome.text)
           [] outcome.kind = "auth" -> AuthText
           [] outcome.kind = "api" -> ApiErrorPrefix \o outcome.text
           [] OTHER -> UnexpectedPrefix \o outcome.text

ChatSubmitUncaught(msgs, q, fdf, outcome) ==
    IF fdf # <<>> /\ outcome.kind = "other"
    THEN Append(msgs, [role |-> "user", content |-> q])
    ELSE msgs \o <<[role |-> "user", content |-> q],
                   [role |-> "assistant", content |-> AssistantContent(fdf, outcome)]>>

\* if submit_button and user_question: the two appends to st.session_state.messages
ChatSubmit(msgs, q, fdf, outcome) ==
    msgs \o <<[role |-> "user", content |-> q],
              [role |-> "assistant", content |-> AssistantContent(fdf, outcome)]>>

\* openai.ChatCompletion.create is called once, and only when filtered_df is not empty
ApiCalls(fdf) == IF fdf # <<>> THEN 1 ELSE 0

---------------------------------------------------------------------------
(* One run of the script *)

NoFile == [kind |-> "none", columns |-> <<>>, rows |-> <<>>]
Unreadable == [kind |-> "unreadable", columns |-> <<>>, rows |-> <<>>]
Table(cols, rows) == [kind |-> "table", columns |-> cols, rows |-> rows]

NoOutcome == [kind |-> "none", text |-> <<>>]

\* The chat section: the form when a key and filtered_df exist, a notice otherwise
ChatSection(file, dash) ==
    IF ~openai_api_key THEN <<"warning:no_key">>
    ELSE IF file.kind # "none" /\ dash THEN <<"chat_history", "chat_form">>
    ELSE IF file.kind = "none" THEN <<"info:upload_before_chat">>
    ELSE <<"info:upload_to_enable_chat">>

\* The elements rendered by a run, in script order
Page(file, alert, dash, chart) ==
    IF file.kind = "none" THEN <<"info:upload">> \o ChatSection(file, dash)
    ELSE IF ~dash THEN <<alert.kind>>
    ELSE <<"fig1", "fig2", "fig3", "fig4">>
         \o (IF chart # <<>> THEN <<"fig5">> ELSE <<"info:no_data">>)
         \o <<"fig6">> \o ChatSection(file, dash)

\* The script, top to bottom, with the widget values of this run
Run(file, n, sel, submit, q, outcome) ==
    LET ld == IF file.kind = "none" THEN [alert |-> NoAlert, df |-> <<>>] ELSE Load(file)
        dash == file.kind # "none" /\ ~StopsAfterLoad(ld.alert)
        fdf == IF dash THEN FilteredDf(ld.df, sel) ELSE <<>>
        form == dash /\ openai_api_key
        asked == form /\ submit /\ q # <<>>
        chart == IF dash THEN TopTestsPerFranchiseeChart(fdf) ELSE <<>>
    IN  /\ uploaded_file' = file
        /\ UNCHANGED openai_api_key
        /\ top_n_tests' = (IF dash THEN n ELSE SliderDefault)
        /\ selection' = sel
        /\ submit_button' = (form /\ submit)
        /\ user_question' = (IF form THEN q ELSE <<>>)
        /\ messages' = (IF asked THEN ChatSubmit(messages, q, fdf, outcome) ELSE messages)
        /\ api_calls' = (IF asked THEN ApiCalls(fdf) ELSE 0)
        /\ api_outcome' = (IF asked /\ ApiCalls(fdf) > 0 THEN outcome.kind ELSE "none")
        /\ load_alert' = ld.alert
        /\ df' = (IF dash THEN ld.df ELSE <<>>)
        /\ filtered_df' = fdf
        /\ aggregated' = dash
        /\ volume_by_franchisee' = (IF dash THEN VolumeByFranchisee(fdf) ELSE <<>>)
        /\ test_counts' = (IF dash THEN TestCounts(fdf, n) ELSE <<>>)
        /\ lab_counts' = (IF dash THEN LabCounts(fdf) ELSE <<>>)
        /\ sub_account_counts' = (IF dash THEN SubAccountCounts(fdf) ELSE <<>>)
        /\ top_tests_per_franchisee_chart' = chart
        /\ page' = Page(file, ld.alert, dash, chart)

---------------------------------------------------------------------------
(* Inputs *)

A == <<"A">>
B == <<"B">>
X == <<"X">>
Y == <<"Y">>
L == <<"L">>

Row(f, s, t, l) ==
    [c \in Range(required_columns) |->
        CASE c = "Franchisee" -> f [] c = "Sub Client" -> s
          [] c = "test name" -> t [] OTHER -> l]

SeqsUpTo(S, n) == UNION {[1..k -> S] : k \in 0..n}

AllColumns == Range(required_columns) \cup {"Notes"}

\* Every subset of the columns, in every order
ColumnOrders ==
    UNION {{s \in [1..k -> AllColumns] : \A i, j \in 1..k : i # j => s[i] # s[j]} :
           k \in 0..Cardinality(AllColumns)}

\* Header variants: any columns in any order, over rows without missing cells
HeaderTables ==
    {Table(cols, [i \in 1..n |-> [c \in Range(cols) |-> A]]) :
        cols \in ColumnOrders, n \in 0..MaxSchemaRows}

\* Every subset of the columns, in the order of the sheet
ColumnSubsets ==
    LET sheet == required_columns \o <<"Notes">>
    IN  {SubseqAt(sheet, I) : I \in SUBSET DOMAIN sheet}

\* Files on which load ends each way: unreadable, columns missing, no row
\* left, loaded
LoadTables ==
    {Table(cols, [i \in 1..n |-> [c \in Range(cols) |-> A]]) :
        cols \in ColumnSubsets, n \in 0..MaxSchemaRows}
    \cup {Unreadable, Table(required_columns, <<Row(None, A, X, L)>>),
          Table(required_columns, <<Row(None, A, X, L), Row(A, None, X, None)>>)}

DropRows ==
    {Row(f, A, t, l) : f \in {None, <<>>, <<" ">>, A}, t \in {None, <<" ">>, X},
                       l \in {None, L}}

DropTables == {Table(required_columns, r) : r \in SeqsUpTo(DropRows, MaxDropRows)}

StatusRows ==
    {Row(f, s, X, L) : f \in {A, <<"N", "a", "n">>}, s \in {None, A, <<"a", " ">>, B}}

StatusTables == {Table(required_columns, r) : r \in SeqsUpTo(StatusRows, MaxStatusRows)}

FilterRows == {Row(f, f, t, L) : f \in {A, B}, t \in {X, Y}}

FilterTables == {Table(required_columns, r) : r \in SeqsUpTo(FilterRows, MaxFilterRows)}

Selections == [tests : SUBSET {X, Y}, franchisees : SUBSET {A, B}]

RankTests == {<<"a">>, B, <<"C">>, <<"D">>, <<"E">>, <<"F">>}

\* Test-name columns: every order of distinct test names, and every short
\* column with repeats
RankColumns ==
    {c \in SeqsUpTo(RankTests, MaxRankRows) : \A i, j \in DOMAIN c : i # j => c[i] # c[j]}
    \cup SeqsUpTo(RankTests, MaxRepeatRows)

RankTables ==
    {Table(required_columns, [i \in 1..Len(c) |-> Row(A, A, c[i], L)]) : c \in RankColumns}

\* d rows whose sub client differs, then t - d rows whose sub client is the
\* franchisee, then b rows of a second franchisee that never differs
PctTables ==
    UNION {{Table(required_columns,
                  [i \in 1..(t + b) |->
                      IF i <= d THEN Row(A, B, X, L)
                      ELSE IF i <= t THEN Row(A, <<"a", " ">>, X, L)
                      ELSE Row(B, B, X, L)]) : d \in 0..t, b \in 0..1} :
           t \in 0..MaxPctRows}

SliderValues == {SliderMin, SliderDefault}

Questions == {<<>>, <<"q">>}

Outcomes ==
    {[kind |-> "ok", text |-> <<"r", " ">>], [kind |-> "auth", text |-> <<>>],
     [kind |-> "api", text |-> <<"e">>], [kind |-> "other", text |-> <<"e">>]}

---------------------------------------------------------------------------
(* Events: each one changes a widget and re-runs the script *)

\* The first run of a session: no file, no messages
Init ==
    /\ uploaded_file = NoFile
    /\ openai_api_key \in BOOLEAN
    /\ top_n_tests = SliderDefault
    /\ selection = [tests |-> {}, franchisees |-> {}]
    /\ submit_button = FALSE
    /\ user_question = <<>>
    /\ messages = <<>>
    /\ api_calls = 0
    /\ api_outcome = "none"
    /\ load_alert = NoAlert
    /\ df = <<>>
    /\ filtered_df = <<>>
    /\ aggregated = FALSE
    /\ volume_by_franchisee = <<>>
    /\ test_counts = <<>>
    /\ lab_counts = <<>>
    /\ sub_account_counts = <<>>
    /\ top_tests_per_franchisee_chart = <<>>
    /\ page = Page(NoFile, NoAlert, FALSE, <<>>)

\* A file is put into the empty uploader
UploadFile(t) ==
    /\ uploaded_file.kind = "none"
    /\ Run(t, SliderDefault, selection, FALSE, <<>>, NoOutcome)

\* The file is removed from the uploader
ClearFile ==
    /\ uploaded_file.kind # "none"
    /\ Run(NoFile, SliderDefault, selection, FALSE, <<>>, NoOutcome)

\* The top-N slider is moved
MoveSlider(n) ==
    /\ aggregated
    /\ n # top_n_tests
    /\ Run(uploaded_file, n, selection, FALSE, user_question, NoOutcome)

\* The chat form is submitted with question q; the completion call ends in outcome
SubmitChat(q, outcome) ==
    /\ "chat_form" \in Range(page)
    /\ Len(messages) < 2 * MaxSubmissions
    /\ Run(uploaded_file, top_n_tests, selection, TRUE, q, outcome)

\* The user's filter selection changes
ChooseFilter(sel) ==
    /\ sel # selection
    /\ Run(uploaded_file, top_n_tests, sel, FALSE, user_question, NoOutcome)

UploadLoad == \E t \in LoadTables : UploadFile(t)
UploadHeader == \E t \in HeaderTables : UploadFile(t)
UploadData == \E t \in DropTables \cup StatusTables : UploadFile(t)
UploadFilter == \E t \in FilterTables : UploadFile(t)
UploadRank == \E t \in RankTables : UploadFile(t)
UploadPct == \E t \in PctTables : UploadFile(t)
Slide == \E n \in SliderValues : MoveSlider(n)
Ask == \E q \in Questions, o \in Outcomes : SubmitChat(q, o)
Choose == \E sel \in Selections : ChooseFilter(sel)

\* Uploads on which load ends each way, with the slider and the chat
Next == UploadLoad \/ ClearFile \/ Slide \/ Ask
Spec == Init /\ [][Next]_vars

\* Header variants of the upload
NextHeader == UploadHeader \/ ClearFile \/ Slide
SpecHeader == Init /\ [][NextHeader]_vars

\* Missing, blank and differently written cells
NextData == UploadData \/ ClearFile \/ Slide
SpecData == Init /\ [][NextData]_vars

\* A filter selection next to the upload
NextFilter == UploadFilter \/ ClearFile \/ Choose
SpecFilter == Init /\ [][NextFilter]_vars

\* Many test names
NextRank == UploadRank \/ ClearFile \/ Slide
SpecRank == Init /\ [][NextRank]_vars

\* Many rows of one franchisee
NextPct == UploadPct \/ ClearFile \/ Slide
SpecPct == Init /\ [][NextPct]_vars

---------------------------------------------------------------------------
(* Properties *)

RECURSIVE Sum(_)
Sum(s) == IF s = <<>> THEN 0 ELSE Head(s) + Sum(Tail(s))

FourRequired == {"Franchisee", "Sub Client", "test name", "Lab Partner"}

MissingColumns == {c \in FourRequired : c \notin Range(uploaded_file.columns)}

NoDerivedTable ==
    /\ ~aggregated
    /\ filtered_df = <<>>
    /\ volume_by_franchisee = <<>>
    /\ test_counts = <<>>
    /\ lab_counts = <<>>
    /\ sub_account_counts = <<>>
    /\ top_tests_per_franchisee_chart = <<>>

\* C1 as stated: for an uploaded table, load reports a schema error iff a
\* required column is absent, and the error names the missing columns.
C1_NamesMissingColumns ==
    uploaded_file.kind = "table" =>
        /\ load_alert.kind = "schema" <=> MissingColumns # {}
        /\ load_alert.kind = "schema" => Range(load_alert.names) = MissingColumns

\* C1 amended: for an uploaded table, load reports a schema error iff a
\* required column is absent, whatever the column order and the extra
\* columns; the error lists all four required columns, missing or not.
C1_SchemaGate ==
    uploaded_file.kind = "table" =>
        /\ load_alert.kind = "schema" <=> MissingColumns # {}
        /\ load_alert.kind = "schema" =>
              /\ Range(load_alert.names) = FourRequired
              /\ page = <<"schema">>

\* A table with one required column missing, its other columns out of order
C1_Witness ==
    /\ uploaded_file.kind = "table"
    /\ Cardinality(MissingColumns) = 1
    /\ Len(uploaded_file.columns) = 4
    /\ uploaded_file.columns[1] = "Notes"
    /\ load_alert.kind = "schema"

\* C2: a run whose load ends in an error (columns missing, no row left, file
\* unreadable) stops there: it computes and renders no derived table, shows
\* no chat form and sends no chat request.
C2_StopsAtLoadError ==
    load_alert.kind \in {"schema", "empty", "read"} =>
        /\ NoDerivedTable
        /\ page = <<load_alert.kind>>
        /\ api_calls = 0
        /\ ~submit_button

\* A load error in a session that has a key and has already used the chat
C2_Witness ==
    /\ load_alert.kind = "empty"
    /\ openai_api_key
    /\ Len(messages) >= 2
    /\ NoDerivedTable

ChosenRows(d) ==
    LET Chosen(r) == r["test name"] \in selection.tests
                     /\ r["Franchisee"] \in selection.franchisees
    IN  SelectSeq(d, Chosen)

\* C9 as stated: the records aggregated are those of the chosen test names
\* and franchisees, and with an empty choice aggregation does not run.
C9_FilterApplied ==
    aggregated =>
        /\ selection.tests # {}
        /\ selection.franchisees # {}
        /\ filtered_df = ChosenRows(df)

\* C9 amended: the script applies no selection; every run whose load succeeds
\* aggregates all records of the loaded Dataset, whatever is chosen, and no
\* run ends in an empty-selection error.
C9_WholeDatasetAggregated ==
    (uploaded_file.kind = "table" /\ load_alert.kind = "none") =>
        /\ aggregated
        /\ filtered_df = df
        /\ Sum([i \in 1..Len(volume_by_franchisee) |->
                    volume_by_franchisee[i].Sample_Volume]) = Len(df)
        /\ "fig1" \in Range(page)

\* A loaded Dataset with a record outside a non-empty choice
C9_Witness ==
    /\ aggregated
    /\ selection.tests = {X}
    /\ selection.franchisees = {A}
    /\ \E i \in DOMAIN df : df[i]["test name"] = Y
    /\ Len(filtered_df) = 2

FailureKinds == {"auth", "api", "other"}

\* One run seen as a chat step
C10_Step ==
    LET asked == submit_button' /\ user_question' # <<>>
        n == Len(messages)
    IN  /\ asked =>
              /\ Len(messages') = n + 2
              /\ SubSeq(messages', 1, n) = messages
              /\ messages'[n + 1] = [role |-> "user", content |-> user_question']
              /\ messages'[n + 2].role = "assistant"
              /\ api_calls' <= 1
              /\ df' = df /\ filtered_df' = filtered_df
              /\ volume_by_franchisee' = volume_by_franchisee
              /\ (api_outcome \in FailureKinds /\ api_outcome' \in FailureKinds
                  /\ api_outcome' # api_outcome)
                 => messages'[n + 2].content # messages[n].content
        /\ ~asked => (messages' = messages /\ api_calls' = 0)
        /\ \A i \in DOMAIN messages' :
              messages'[i].role = (IF i % 2 = 1 THEN "user" ELSE "assistant")

\* C10: every submission of a non-empty question appends one user message
\* and then one assistant message, whatever the outcome of the call, which is
\* made at most once; different failure kinds give different assistant
\* messages; earlier entries and the Dataset are unchanged; no other run
\* changes the transcript, which alternates user and assistant.
C10_Transcript == [][C10_Step]_vars

\* Two submissions, the second ending in an exception other than the first's
C10_Witness ==
    /\ Len(messages) = 4
    /\ api_outcome = "other"
    /\ messages[2].content = AuthText
    /\ messages[4].role = "assistant"

---------------------------------------------------------------------------
(* Properties of the derived tables *)

CountFor(t, k) == Sum([i \in 1..Len(t) |-> IF t[i].key = k THEN t[i].count ELSE 0])

\* A cell that is absent, empty or whitespace-only
Blank(c) == c = None \/ c = NaN \/ Strip(c) = <<>>

\* The uploaded rows that have a franchisee and a test name
ValidRows ==
    {i \in DOMAIN uploaded_file.rows :
        /\ ~Blank(uploaded_file.rows[i]["Franchisee"])
        /\ ~Blank(uploaded_file.rows[i]["test name"])}

\* C3: a row whose franchisee or test name is absent, empty or
\* whitespace-only contributes to no derived table.
C3_BlankRowsDropped ==
    aggregated =>
        /\ Len(filtered_df) = Cardinality(ValidRows)
        /\ Sum([i \in 1..Len(volume_by_franchisee) |->
                    volume_by_franchisee[i].Sample_Volume]) = Cardinality(ValidRows)
        /\ Sum(CountColumn(sub_account_counts)) = Cardinality(ValidRows)
        /\ \A i \in DOMAIN volume_by_franchisee : ~Blank(volume_by_franchisee[i].Franchisee)
        /\ \A i \in DOMAIN test_counts : ~Blank(test_counts[i].key)
        /\ \A i \in DOMAIN top_tests_per_franchisee_chart :
              /\ ~Blank(top_tests_per_franchisee_chart[i].Franchisee)
              /\ ~Blank(top_tests_per_franchisee_chart[i].test_name)

\* C4: the counts of VolumeByFranchisee and the counts of LabPartnerUsage
\* each sum to the number of records; a record without a lab partner is
\* counted in a bucket of its own.
C4_CountsSumToDataset ==
    aggregated =>
        /\ Sum([i \in 1..Len(volume_by_franchisee) |->
                    volume_by_franchisee[i].Sample_Volume]) = Len(filtered_df)
        /\ Sum(CountColumn(lab_counts)) = Len(filtered_df)

\* differs of the specification: the names differ after lower-casing and
\* trimming; an absent sub client differs from every name
Differs(r) ==
    r["Sub Client"] = NaN
    \/ Strip(Lower(r["Franchisee"])) # Strip(Lower(r["Sub Client"]))

\* C5: SubAccountStatus counts the records whose names differ as 'sub account
\* used' and the others as 'direct account'; an absent sub client is never
\* equal to a name.
C5_StatusCounts ==
    aggregated =>
        /\ CountFor(sub_account_counts, SubAccountUsed)
              = Cardinality({i \in DOMAIN filtered_df : Differs(filtered_df[i])})
        /\ CountFor(sub_account_counts, DirectAccount)
              = Cardinality({i \in DOMAIN filtered_df : ~Differs(filtered_df[i])})

\* 100 * d / t rounded half up to hundredths of a percent
HalfUp2(d, t) == (20000 * d + t) \div (2 * t)

\* C6: every franchisee of the Dataset has a percentage equal to
\* 100 * differing / total rounded half up to 2 decimals, within [0, 100], and
\* 0.00 when none of its records differs.
C6_PercentHalfUp ==
    aggregated =>
        \A f \in Range(Column(filtered_df, "Franchisee")) :
            LET rows == {i \in DOMAIN filtered_df : filtered_df[i]["Franchisee"] = f}
                d == Cardinality({i \in rows : Differs(filtered_df[i])})
            IN  \E i \in DOMAIN volume_by_franchisee :
                    /\ volume_by_franchisee[i].Franchisee = f
                    /\ volume_by_franchisee[i].Pct_Sub_Account_Used
                          = HalfUp2(d, Cardinality(rows))
                    /\ volume_by_franchisee[i].Pct_Sub_Account_Used \in 0..10000
                    /\ d = 0 => volume_by_franchisee[i].Pct_Sub_Account_Used = 0

\* The names of a column ranked by descending count, equal counts by
\* ascending case-sensitive name
RankedByName(keys) ==
    LET vals == Range(keys)
        cnt(k) == Cardinality({i \in DOMAIN keys : keys[i] = k})
        before(m, k) == cnt(m) > cnt(k) \/ (cnt(m) = cnt(k) /\ StrLess(m, k))
    IN  [p \in 1..Cardinality(vals) |->
            CHOOSE k \in vals : Cardinality({m \in vals : before(m, k)}) = p - 1]

\* C7: VolumeByFranchisee lists the franchisees by descending count, ties by
\* ascending name, and TopTests holds the first top-N test names of that
\* order.
C7_RankedByCountThenName ==
    aggregated =>
        /\ [i \in 1..Len(volume_by_franchisee) |-> volume_by_franchisee[i].Franchisee]
              = RankedByName(Column(filtered_df, "Franchisee"))
        /\ {test_counts[i].key : i \in DOMAIN test_counts}
              = Range(HeadN(RankedByName(Column(filtered_df, "test name")), top_n_tests))

\* The tests of franchisee f ranked by descending count, equal counts by
\* first appearance among the rows of f
RankedByFirstSeen(f) ==
    LET rows == {i \in DOMAIN filtered_df : filtered_df[i]["Franchisee"] = f}
        vals == {filtered_df[i]["test name"] : i \in rows}
        cnt(k) == Cardinality({i \in rows : filtered_df[i]["test name"] = k})
        first(k) == CHOOSE i \in rows :
                        /\ filtered_df[i]["test name"] = k
                        /\ \A j \in rows : j < i => filtered_df[j]["test name"] # k
        before(m, k) == cnt(m) > cnt(k) \/ (cnt(m) = cnt(k) /\ first(m) < first(k))
    IN  [p \in 1..Cardinality(vals) |->
            LET k == CHOOSE k \in vals : Cardinality({m \in vals : before(m, k)}) = p - 1
            IN  [Franchisee |-> f, test_name |-> k, Test_Volume |-> cnt(k)]]

\* C8: TopTestsPerFranchisee holds, for every franchisee, its min(5, distinct
\* tests) highest-ranked tests with their counts, ranking by descending count
\* and equal counts by first appearance in the source rows.
C8_TopFiveByFirstSeen ==
    aggregated =>
        \A f \in Range(Column(filtered_df, "Franchisee")) :
            {top_tests_per_franchisee_chart[i] :
                i \in {j \in DOMAIN top_tests_per_franchisee_chart :
                          top_tests_per_franchisee_chart[j].Franchisee = f}}
            = Range(HeadN(RankedByFirstSeen(f), TopPerFranchisee))

====
